---- MODULE Spec2Model ----
(***************************************************************************)
(* Model of sv/git.go (package sv of sv4git): the git gateway GitImpl, its *)
(* log/tag output parsers and the range-to-argument translation.           *)
(*                                                                         *)
(* A Go string is modelled as a sequence of one-character strings, so that *)
(* Index, Split, Trim and the scanner split functions are computed on the  *)
(* characters exactly as the Go code computes them on bytes.               *)
(***************************************************************************)
EXTENDS Integers, Sequences, FiniteSets, TLC

VARIABLES tagCfg, messageProcessor, call

vars == <<tagCfg, messageProcessor, call>>

----------------------------------------------------------------------------
(* Program constants (git.go:17-20) *)

logSeparator == <<"#", "#", "#">>
endLine == <<"~", "~", "~">>

(* LogRangeType constants (git.go:52-56) *)
TagRange == <<"t", "a", "g">>
DateRange == <<"d", "a", "t", "e">>
HashRange == <<"h", "a", "s", "h">>

----------------------------------------------------------------------------
(* Bounds of the model *)

\* largest number of commits in one `git log` output
MaxCommits == 2
\* largest number of lines in one `git for-each-ref` output
MaxLines == 2
\* largest number of marker-terminated chunks in a raw splitter input
MaxChunks == 2

----------------------------------------------------------------------------
(* Go string primitives used by git.go *)

Quote == "\""
NL == "\n"

\* the white space strings.TrimSpace removes (ASCII part)
Space == {" ", "\t", "\n", "\r"}

Digits == <<"0", "1", "2", "3", "4", "5", "6", "7", "8", "9">>

IsDigit(c) == \E d \in 1..10 : Digits[d] = c

DigitVal(c) == (CHOOSE d \in 1..10 : Digits[d] = c) - 1

\* bytes.Index / strings.Index: 0-based offset of the first b in s, or -1
Index(s, b) ==
    LET found == {i \in 0..(Len(s) - Len(b)) : SubSeq(s, i + 1, i + Len(b)) = b}
    IN  IF found = {} THEN -1 ELSE CHOOSE i \in found : \A j \in found : i <= j

RECURSIVE Split(_, _)
\* strings.Split(s, sep) for a non-empty sep: every piece between separators
Split(s, sep) ==
    LET i == Index(s, sep)
    IN  IF i < 0 THEN <<s>>
        ELSE <<SubSeq(s, 1, i)>> \o Split(SubSeq(s, i + Len(sep) + 1, Len(s)), sep)

RECURSIVE TrimLeft(_, _)
TrimLeft(s, cutset) ==
    IF s # <<>> /\ Head(s) \in cutset THEN TrimLeft(Tail(s), cutset) ELSE s

RECURSIVE TrimRight(_, _)
TrimRight(s, cutset) ==
    IF s # <<>> /\ s[Len(s)] \in cutset
    THEN TrimRight(SubSeq(s, 1, Len(s) - 1), cutset)
    ELSE s

\* strings.Trim(s, cutset): every leading and trailing character of cutset
Trim(s, cutset) == TrimRight(TrimLeft(s, cutset), cutset)

\* strings.TrimSpace
TrimSpace(s) == Trim(s, Space)

RECURSIVE AtoiDigits(_, _)
AtoiDigits(s, acc) ==
    IF s = <<>> THEN acc ELSE AtoiDigits(Tail(s), acc * 10 + DigitVal(Head(s)))

\* strconv.Atoi for inputs short enough for the machine int: an optional
\* sign, then one or more decimal digits; anything else is (0, error)
Atoi(s) ==
    LET signed == s # <<>> /\ Head(s) \in {"+", "-"}
        body == IF signed THEN Tail(s) ELSE s
        ok == body # <<>> /\ \A i \in 1..Len(body) : IsDigit(body[i])
    IN  IF ~ok THEN [val |-> 0, ok |-> FALSE]
        ELSE [val |-> IF signed /\ Head(s) = "-"
                      THEN 0 - AtoiDigits(body, 0)
                      ELSE AtoiDigits(body, 0),
              ok |-> TRUE]

RECURSIVE ItoaPos(_)
ItoaPos(n) ==
    IF n < 10 THEN <<Digits[n + 1]>> ELSE ItoaPos(n \div 10) \o <<Digits[(n % 10) + 1]>>

\* the %d verb of fmt for a non-negative integer
Itoa(n) == ItoaPos(n)

RECURSIVE Pad(_, _)
\* zero padding to a minimal width, as time.Format pads "2006", "01", "02"
Pad(s, width) == IF Len(s) >= width THEN s ELSE Pad(<<"0">> \o s, width)

----------------------------------------------------------------------------
(* Calendar dates: time.Parse, Time.AddDate and Time.Format as addDay and  *)
(* parseTagsOutput use them                                                *)

IsLeap(y) == y % 4 = 0 /\ (y % 100 # 0 \/ y % 400 = 0)

daysIn(m, y) ==
    IF m = 2 THEN (IF IsLeap(y) THEN 29 ELSE 28)
    ELSE IF m \in {4, 6, 9, 11} THEN 30 ELSE 31

\* time.Parse("2006-01-02", value): four digits, "-", two digits, "-", two
\* digits and nothing else; the month and the day of the month are range checked
ParseDate(value) ==
    LET shape == /\ Len(value) = 10
                 /\ \A i \in {1, 2, 3, 4, 6, 7, 9, 10} : IsDigit(value[i])
                 /\ value[5] = "-"
                 /\ value[8] = "-"
        y == AtoiDigits(SubSeq(value, 1, 4), 0)
        m == AtoiDigits(SubSeq(value, 6, 7), 0)
        d == AtoiDigits(SubSeq(value, 9, 10), 0)
    IN  IF shape /\ m \in 1..12 /\ d >= 1 /\ d <= daysIn(m, y)
        THEN [ok |-> TRUE, y |-> y, m |-> m, d |-> d]
        ELSE [ok |-> FALSE, y |-> 0, m |-> 0, d |-> 0]

RECURSIVE NormDate(_, _, _)
\* the normalisation time.Date applies to a day past the end of its month
NormDate(y, m, d) ==
    IF m > 12 THEN NormDate(y + 1, m - 12, d)
    ELSE IF d > daysIn(m, y) THEN NormDate(y, m + 1, d - daysIn(m, y))
    ELSE [y |-> y, m |-> m, d |-> d]

\* Time.AddDate(years, months, days) for non-negative arguments
AddDate(t, years, months, days) == NormDate(t.y + years, t.m + months, t.d + days)

\* Time.Format("2006-01-02")
FormatDate(t) == Pad(Itoa(t.y), 4) \o <<"-">> \o Pad(Itoa(t.m), 2) \o <<"-">> \o Pad(Itoa(t.d), 2)

\* the zero time.Time: January 1, year 1, 00:00:00 UTC
ZeroTime == [y |-> 1, m |-> 1, d |-> 1, H |-> 0, M |-> 0, S |-> 0, off |-> 0]

\* time.Parse("2006-01-02 15:04:05 -0700", value): the date as above, a one
\* or two digit hour, two digit minute and second, and a signed four digit
\* zone offset; (ZeroTime, error) when the text does not match
ParseTagDate(value) ==
    LET date == ParseDate(SubSeq(value, 1, 10))
        rest == SubSeq(value, 11, Len(value))
        hlen == IF Len(rest) >= 3 /\ IsDigit(rest[2]) /\ IsDigit(rest[3]) THEN 2 ELSE 1
        shape == /\ Len(value) >= 10
                 /\ date.ok
                 /\ Len(rest) = 13 + hlen
                 /\ rest[1] = " "
                 /\ \A i \in 2..(1 + hlen) : IsDigit(rest[i])
                 /\ rest[2 + hlen] = ":"
                 /\ IsDigit(rest[3 + hlen]) /\ IsDigit(rest[4 + hlen])
                 /\ rest[5 + hlen] = ":"
                 /\ IsDigit(rest[6 + hlen]) /\ IsDigit(rest[7 + hlen])
                 /\ rest[8 + hlen] = " "
                 /\ rest[9 + hlen] \in {"+", "-"}
                 /\ \A i \in (10 + hlen)..(13 + hlen) : IsDigit(rest[i])
        H == AtoiDigits(SubSeq(rest, 2, 1 + hlen), 0)
        M == AtoiDigits(SubSeq(rest, 3 + hlen, 4 + hlen), 0)
        S == AtoiDigits(SubSeq(rest, 6 + hlen, 7 + hlen), 0)
        zh == AtoiDigits(SubSeq(rest, 10 + hlen, 11 + hlen), 0)
        zm == AtoiDigits(SubSeq(rest, 12 + hlen, 13 + hlen), 0)
        sign == IF rest[9 + hlen] = "-" THEN 0 - 1 ELSE 1
    IN  IF shape /\ H < 24 /\ M < 60 /\ S < 60 /\ zh <= 24 /\ zm <= 60
        THEN [ok |-> TRUE,
              t |-> [y |-> date.y, m |-> date.m, d |-> date.d,
                     H |-> H, M |-> M, S |-> S, off |-> sign * (zh * 60 + zm)]]
        ELSE [ok |-> FALSE, t |-> ZeroTime]

----------------------------------------------------------------------------
(* Range arguments (git.go:271-289) *)

\* mutant of addDay: the day is not added
addDayKeepsDay(value) == value

addDay(value) ==
    IF value = <<>> THEN value
    ELSE LET t == ParseDate(value)
         IN  IF ~t.ok THEN value   \* keep original value if is not date format
             ELSE FormatDate(AddDate(t, 0, 0, 1))

\* mutant of str: the default is not used
strNoDefault(value, defaultValue) == value

str(value, defaultValue) == IF value # <<>> THEN value ELSE defaultValue

----------------------------------------------------------------------------
(* Errors and the message processor collaborator *)

\* the nil error
NoError == [kind |-> "nil", cause |-> "", msg |-> <<>>]

\* MessageProcessor.Parse(subject, body): the collaborator of GitImpl. A
\* processor is the set of subjects it rejects; the message it returns
\* holds exactly the subject and the body it was given
Parse(mp, subject, body) ==
    IF subject \in mp
    THEN [message |-> [subject |-> <<>>, body |-> <<>>],
          err |-> [kind |-> "MessageProcessor", cause |-> "", msg |-> subject]]
    ELSE [message |-> [subject |-> subject, body |-> body], err |-> NoError]

\* fmt.Errorf("%v - %s", err, msg[0]) with msg the lines of the output
combinedOutputErr(err, out) ==
    LET msg == Split(out, <<NL>>)
    IN  [kind |-> "Errorf", cause |-> err, msg |-> msg[1]]

----------------------------------------------------------------------------
(* bufio.Scanner with its two split functions *)

\* mutant of splitAt: at the end of the data the text left is dropped
splitAtDropsTail(b, data, atEOF) ==
    LET i == Index(data, b)
    IN  IF i >= 0 THEN [advance |-> i + Len(b), token |-> SubSeq(data, 1, i), has |-> TRUE]
        ELSE [advance |-> 0, token |-> <<>>, has |-> FALSE]

\* the split function splitAt(b) returns (git.go:251-269)
splitAt(b, data, atEOF) ==
    LET dataLen == Len(data)
        i == Index(data, b)
    IN  IF atEOF /\ dataLen = 0 THEN [advance |-> 0, token |-> <<>>, has |-> FALSE]
        ELSE IF i >= 0 THEN [advance |-> i + Len(b), token |-> SubSeq(data, 1, i), has |-> TRUE]
        ELSE IF atEOF THEN [advance |-> dataLen, token |-> data, has |-> TRUE]
        ELSE [advance |-> 0, token |-> <<>>, has |-> FALSE]

\* bufio.ScanLines, the default split function of bufio.NewScanner
ScanLines(data, atEOF) ==
    LET dataLen == Len(data)
        i == Index(data, <<NL>>)
        dropCR(line) == IF line # <<>> /\ line[Len(line)] = "\r"
                        THEN SubSeq(line, 1, Len(line) - 1) ELSE line
    IN  IF atEOF /\ dataLen = 0 THEN [advance |-> 0, token |-> <<>>, has |-> FALSE]
        ELSE IF i >= 0 THEN [advance |-> i + 1, token |-> dropCR(SubSeq(data, 1, i)), has |-> TRUE]
        ELSE IF atEOF THEN [advance |-> dataLen, token |-> dropCR(data), has |-> TRUE]
        ELSE [advance |-> 0, token |-> <<>>, has |-> FALSE]

\* the split function a scanner was given: "lines" is the default one,
\* "endLine" is splitAt([]byte(endLine))
SplitFunc(split, data, atEOF) ==
    IF split = "lines" THEN ScanLines(data, atEOF) ELSE splitAt(endLine, data, atEOF)

RECURSIVE Scanner(_, _, _)
\* every token scanner.Scan() yields over a strings.Reader of data, in
\* order: the split function is asked with atEOF false while the reader
\* has not reported EOF, and once more with atEOF true at the end
Scanner(split, data, atEOF) ==
    IF data = <<>> /\ ~atEOF THEN Scanner(split, data, TRUE)
    ELSE LET r == SplitFunc(split, data, atEOF)
         IN  IF r.has
             THEN <<r.token>> \o Scanner(split, SubSeq(data, r.advance + 1, Len(data)), atEOF)
             ELSE IF atEOF THEN <<>>
             ELSE Scanner(split, data, TRUE)

----------------------------------------------------------------------------
(* The parsers (git.go:203-249). A result's outcome is "return", or "panic" *)
(* when an index is out of range; calls lists the (subject, body) pairs     *)
(* handed to the message processor, in order                                *)

\* mutant of parseCommitLog: a timestamp that is no integer is an error
parseCommitLogStrict(mp, commit) ==
    LET content == Split(Trim(commit, {Quote}), logSeparator)
        timestamp == Atoi(content[2])
        parsed == Parse(mp, content[5], content[6])
        zero == [Date |-> <<>>, Timestamp |-> 0, AuthorName |-> <<>>, Hash |-> <<>>,
                 Message |-> [subject |-> <<>>, body |-> <<>>]]
    IN  IF Len(content) < 6
        THEN [outcome |-> "panic", log |-> zero, err |-> NoError, calls |-> <<>>]
        ELSE IF ~timestamp.ok
        THEN [outcome |-> "return", log |-> zero,
              err |-> [kind |-> "NumError", cause |-> "invalid syntax", msg |-> content[2]],
              calls |-> <<>>]
        ELSE IF parsed.err # NoError
        THEN [outcome |-> "return", log |-> zero, err |-> parsed.err,
              calls |-> <<<<content[5], content[6]>>>>]
        ELSE [outcome |-> "return",
              log |-> [Date |-> content[1],
                       Timestamp |-> timestamp.val,
                       AuthorName |-> content[3],
                       Hash |-> content[4],
                       Message |-> parsed.message],
              err |-> NoError,
              calls |-> <<<<content[5], content[6]>>>>]

parseCommitLog(mp, commit) ==
    LET content == Split(Trim(commit, {Quote}), logSeparator)
        timestamp == Atoi(content[2]).val
        parsed == Parse(mp, content[5], content[6])
        zero == [Date |-> <<>>, Timestamp |-> 0, AuthorName |-> <<>>, Hash |-> <<>>,
                 Message |-> [subject |-> <<>>, body |-> <<>>]]
    IN  IF Len(content) < 6
        THEN [outcome |-> "panic", log |-> zero, err |-> NoError, calls |-> <<>>]
        ELSE IF parsed.err # NoError
        THEN [outcome |-> "return", log |-> zero, err |-> parsed.err,
              calls |-> <<<<content[5], content[6]>>>>]
        ELSE [outcome |-> "return",
              log |-> [Date |-> content[1],
                       Timestamp |-> timestamp,
                       AuthorName |-> content[3],
                       Hash |-> content[4],
                       Message |-> parsed.message],
              err |-> NoError,
              calls |-> <<<<content[5], content[6]>>>>]

RECURSIVE parseLogLoopSkipsBad(_, _, _)
\* mutant of parseLogLoop: a record the message processor rejects is
\* skipped and the loop goes on with the next one
parseLogLoopSkipsBad(mp, tokens, acc) ==
    IF tokens = <<>>
    THEN [outcome |-> "return", logs |-> acc.logs, err |-> NoError,
          records |-> acc.records, calls |-> acc.calls]
    ELSE LET text == TrimSpace(Trim(Head(tokens), {Quote}))
             r == parseCommitLog(mp, text)
             records == Append(acc.records, text)
             calls == acc.calls \o r.calls
         IN  IF text = <<>> THEN parseLogLoopSkipsBad(mp, Tail(tokens), acc)
             ELSE IF r.outcome = "panic"
             THEN [outcome |-> "panic", logs |-> <<>>, err |-> NoError,
                   records |-> records, calls |-> calls]
             ELSE IF r.err # NoError
             THEN parseLogLoopSkipsBad(mp, Tail(tokens),
                                       [logs |-> acc.logs, records |-> records, calls |-> calls])
             ELSE parseLogLoopSkipsBad(mp, Tail(tokens),
                                       [logs |-> Append(acc.logs, r.log), records |-> records, calls |-> calls])

RECURSIVE parseLogLoopPrepends(_, _, _)
\* mutant of parseLogLoop: each log is put in front of the ones before it
parseLogLoopPrepends(mp, tokens, acc) ==
    IF tokens = <<>>
    THEN [outcome |-> "return", logs |-> acc.logs, err |-> NoError,
          records |-> acc.records, calls |-> acc.calls]
    ELSE LET text == TrimSpace(Trim(Head(tokens), {Quote}))
             r == parseCommitLog(mp, text)
             records == Append(acc.records, text)
             calls == acc.calls \o r.calls
         IN  IF text = <<>> THEN parseLogLoopPrepends(mp, Tail(tokens), acc)
             ELSE IF r.outcome = "panic"
             THEN [outcome |-> "panic", logs |-> <<>>, err |-> NoError,
                   records |-> records, calls |-> calls]
             ELSE IF r.err # NoError
             THEN [outcome |-> "return", logs |-> <<>>, err |-> r.err,
                   records |-> records, calls |-> calls]
             ELSE parseLogLoopPrepends(mp, Tail(tokens),
                                       [logs |-> <<r.log>> \o acc.logs, records |-> records, calls |-> calls])

RECURSIVE parseLogLoop(_, _, _)
\* the for scanner.Scan() loop of parseLogOutput over the remaining tokens;
\* acc holds the logs appended, the texts handed to parseCommitLog (records)
\* and the calls made to the message processor so far
parseLogLoop(mp, tokens, acc) ==
    IF tokens = <<>>
    THEN [outcome |-> "return", logs |-> acc.logs, err |-> NoError,
          records |-> acc.records, calls |-> acc.calls]
    ELSE LET text == TrimSpace(Trim(Head(tokens), {Quote}))
             r == parseCommitLog(mp, text)
             records == Append(acc.records, text)
             calls == acc.calls \o r.calls
         IN  IF text = <<>> THEN parseLogLoop(mp, Tail(tokens), acc)
             ELSE IF r.outcome = "panic"
             THEN [outcome |-> "panic", logs |-> <<>>, err |-> NoError,
                   records |-> records, calls |-> calls]
             ELSE IF r.err # NoError
             THEN [outcome |-> "return", logs |-> <<>>, err |-> r.err,
                   records |-> records, calls |-> calls]
             ELSE parseLogLoop(mp, Tail(tokens),
                               [logs |-> Append(acc.logs, r.log), records |-> records, calls |-> calls])

parseLogOutput(mp, log) ==
    parseLogLoop(mp, Scanner("endLine", log, FALSE), [logs |-> <<>>, records |-> <<>>, calls |-> <<>>])

RECURSIVE parseTagsLoop(_, _)
\* the for scanner.Scan() loop of parseTagsOutput over the remaining lines
parseTagsLoop(lines, result) ==
    IF lines = <<>>
    THEN [outcome |-> "return", tags |-> result, err |-> NoError]
    ELSE LET line == TrimSpace(Head(lines))
             values == Split(line, <<"#">>)
             date == ParseTagDate(values[1]).t   \* ignore invalid dates
         IN  IF line = <<>> THEN parseTagsLoop(Tail(lines), result)
             ELSE IF Len(values) < 2
             THEN [outcome |-> "panic", tags |-> <<>>, err |-> NoError]
             ELSE parseTagsLoop(Tail(lines), Append(result, [Name |-> values[2], Date |-> date]))

parseTagsOutput(input) == parseTagsLoop(Scanner("lines", input, FALSE), <<>>)

----------------------------------------------------------------------------
(* fmt.Sprintf for the verbs a tag pattern uses *)

RECURSIVE Extra(_)
Extra(args) ==
    IF args = <<>> THEN <<>>
    ELSE <<"u", "i", "n", "t", "6", "4", "=">> \o Itoa(Head(args))
         \o (IF Len(args) > 1 THEN <<",", " ">> ELSE <<>>) \o Extra(Tail(args))

RECURSIVE Sprintf(_, _)
\* %d takes the next argument, %% is a percent sign, a %d without an
\* argument prints %!d(MISSING) and left over arguments print %!(EXTRA ...)
Sprintf(format, args) ==
    IF format = <<>>
    THEN IF args = <<>> THEN <<>>
         ELSE <<"%", "!", "(", "E", "X", "T", "R", "A", " ">> \o Extra(args) \o <<")">>
    ELSE IF Len(format) >= 2 /\ format[1] = "%" /\ format[2] = "d"
    THEN IF args = <<>>
         THEN <<"%", "!", "d", "(", "M", "I", "S", "S", "I", "N", "G", ")">>
              \o Sprintf(SubSeq(format, 3, Len(format)), args)
         ELSE Itoa(Head(args)) \o Sprintf(SubSeq(format, 3, Len(format)), Tail(args))
    ELSE IF Len(format) >= 2 /\ format[1] = "%" /\ format[2] = "%"
    THEN <<"%">> \o Sprintf(SubSeq(format, 3, Len(format)), args)
    ELSE <<Head(format)>> \o Sprintf(Tail(format), args)

----------------------------------------------------------------------------
(* The external git process. A run is the result of cmd.CombinedOutput():  *)
(* ok when the process exited with status 0, err the *exec.ExitError text  *)
(* otherwise, out the captured standard output and standard error          *)

Run(ok, err, out) == [ok |-> ok, err |-> err, out |-> out]

\* one invocation as the call record keeps it: the arguments after "git"
Exec(cmd, run) == [cmd |-> cmd, ok |-> run.ok, err |-> run.err, out |-> run.out]

\* runs that fail: silently, or with a diagnostic of one or two lines
FailedRuns ==
    { Run(FALSE, "exit status 1", <<>>),
      Run(FALSE, "exit status 128", <<"f", "a", "t", "a", "l", ":", " ", "b", "a", "d", NL, "h", "i", "n", "t">>) }

\* the format Log asks git for (git.go:109), without the --pretty=format: prefix
PrettyFormat ==
    <<Quote>> \o <<"%", "a", "d">> \o logSeparator \o <<"%", "a", "t">> \o logSeparator \o <<"%", "c", "N">> \o logSeparator
    \o <<"%", "h">> \o logSeparator \o <<"%", "s">> \o logSeparator \o <<"%", "b">> \o endLine \o <<Quote>>

RECURSIVE ExpandFormat(_, _)
\* git's expansion of a pretty format for one commit c
ExpandFormat(format, c) ==
    LET starts(p) == Len(format) >= Len(p) /\ SubSeq(format, 1, Len(p)) = p
        after(p) == SubSeq(format, Len(p) + 1, Len(format))
    IN  IF format = <<>> THEN <<>>
        ELSE IF starts(<<"%", "a", "d">>) THEN c.ad \o ExpandFormat(after(<<"%", "a", "d">>), c)
        ELSE IF starts(<<"%", "a", "t">>) THEN c.at \o ExpandFormat(after(<<"%", "a", "t">>), c)
        ELSE IF starts(<<"%", "c", "N">>) THEN c.cN \o ExpandFormat(after(<<"%", "c", "N">>), c)
        ELSE IF starts(<<"%", "h">>) THEN c.h \o ExpandFormat(after(<<"%", "h">>), c)
        ELSE IF starts(<<"%", "s">>) THEN c.s \o ExpandFormat(after(<<"%", "s">>), c)
        ELSE IF starts(<<"%", "b">>) THEN c.b \o ExpandFormat(after(<<"%", "b">>), c)
        ELSE <<Head(format)>> \o ExpandFormat(Tail(format), c)

RECURSIVE GitLogOutput(_)
\* what `git log --pretty=format:<PrettyFormat>` prints for a list of
\* commits: the expansion for each commit, with a newline between commits
GitLogOutput(commits) ==
    IF commits = <<>> THEN <<>>
    ELSE ExpandFormat(PrettyFormat, Head(commits))
         \o (IF Len(commits) > 1 THEN <<NL>> ELSE <<>>)
         \o GitLogOutput(Tail(commits))

----------------------------------------------------------------------------
(* The operations of GitImpl (git.go:84-201), each as the record of one    *)
(* call: its arguments, the git invocations it made and what it returned   *)

LogParams(lr) ==
    LET format == <<"-", "-", "p", "r", "e", "t", "t", "y", "=", "f", "o", "r", "m", "a", "t", ":">> \o PrettyFormat
        params == <<<<"l", "o", "g">>, <<"-", "-", "d", "a", "t", "e", "=", "s", "h", "o", "r", "t">>, format>>
    IN  IF lr.start # <<>> \/ lr.end # <<>>
        THEN IF lr.rangeType = DateRange
             THEN params \o <<<<"-", "-", "s", "i", "n", "c", "e">>, lr.start, <<"-", "-", "u", "n", "t", "i", "l">>, addDay(lr.end)>>
             ELSE IF lr.start = <<>>
             THEN Append(params, lr.end)
             ELSE Append(params, lr.start \o <<".", ".">> \o str(lr.end, <<"H", "E", "A", "D">>))
        ELSE params

LogCall(mp, lr, run) ==
    LET params == LogParams(lr)
        parsed == parseLogOutput(mp, run.out)
        base == [op |-> "Log", lr |-> lr, execs |-> <<Exec(params, run)>>]
    IN  IF ~run.ok
        THEN base @@ [outcome |-> "return", logs |-> <<>>,
                      err |-> combinedOutputErr(run.err, run.out), calls |-> <<>>]
        ELSE IF parsed.outcome = "panic"
        THEN base @@ [outcome |-> "panic", logs |-> <<>>, err |-> NoError, calls |-> parsed.calls]
        ELSE IF parsed.err # NoError
        THEN base @@ [outcome |-> "return", logs |-> <<>>, err |-> parsed.err, calls |-> parsed.calls]
        ELSE base @@ [outcome |-> "return", logs |-> parsed.logs, err |-> NoError, calls |-> parsed.calls]

\* mutant of TagCall: the push runs although the tag creation failed
TagCallPushesAnyway(cfg, version, tagRun, pushRun) ==
    LET numbers == <<version.Major, version.Minor, version.Patch>>
        tag == Sprintf(cfg.Pattern, numbers)
        tagMsg == Sprintf(<<"V", "e", "r", "s", "i", "o", "n", " ", "%", "d", ".", "%", "d", ".", "%", "d">>, numbers)
        tagCommand == <<<<"t", "a", "g">>, <<"-", "a">>, tag, <<"-", "m">>, tagMsg>>
        pushCommand == <<<<"p", "u", "s", "h">>, <<"o", "r", "i", "g", "i", "n">>, tag>>
        base == [op |-> "Tag", version |-> version, tag |-> tag,
                 execs |-> <<Exec(tagCommand, tagRun), Exec(pushCommand, pushRun)>>]
    IN  IF ~tagRun.ok
        THEN base @@ [err |-> combinedOutputErr(tagRun.err, tagRun.out)]
        ELSE IF ~pushRun.ok
        THEN base @@ [err |-> combinedOutputErr(pushRun.err, pushRun.out)]
        ELSE base @@ [err |-> NoError]

TagCall(cfg, version, tagRun, pushRun) ==
    LET numbers == <<version.Major, version.Minor, version.Patch>>
        tag == Sprintf(cfg.Pattern, numbers)
        tagMsg == Sprintf(<<"V", "e", "r", "s", "i", "o", "n", " ", "%", "d", ".", "%", "d", ".", "%", "d">>, numbers)
        tagCommand == <<<<"t", "a", "g">>, <<"-", "a">>, tag, <<"-", "m">>, tagMsg>>
        pushCommand == <<<<"p", "u", "s", "h">>, <<"o", "r", "i", "g", "i", "n">>, tag>>
        base == [op |-> "Tag", version |-> version, tag |-> tag]
    IN  IF ~tagRun.ok
        THEN base @@ [execs |-> <<Exec(tagCommand, tagRun)>>,
                      err |-> combinedOutputErr(tagRun.err, tagRun.out)]
        ELSE IF ~pushRun.ok
        THEN base @@ [execs |-> <<Exec(tagCommand, tagRun), Exec(pushCommand, pushRun)>>,
                      err |-> combinedOutputErr(pushRun.err, pushRun.out)]
        ELSE base @@ [execs |-> <<Exec(tagCommand, tagRun), Exec(pushCommand, pushRun)>>,
                      err |-> NoError]

TagsCall(cfg, run) ==
    LET cmd == <<<<"f", "o", "r", "-", "e", "a", "c", "h", "-", "r", "e", "f">>, <<"-", "-", "s", "o", "r", "t">>, <<"c", "r", "e", "a", "t", "o", "r", "d", "a", "t", "e">>, <<"-", "-", "f", "o", "r", "m", "a", "t">>,
                 <<"%", "(", "c", "r", "e", "a", "t", "o", "r", "d", "a", "t", "e", ":", "i", "s", "o", "8", "6", "0", "1", ")", "#", "%", "(", "r", "e", "f", "n", "a", "m", "e", ":", "s", "h", "o", "r", "t", ")">>, <<"r", "e", "f", "s", "/", "t", "a", "g", "s", "/">> \o cfg.Filter>>
        parsed == parseTagsOutput(run.out)
        base == [op |-> "Tags", execs |-> <<Exec(cmd, run)>>]
    IN  IF ~run.ok
        THEN base @@ [outcome |-> "return", tags |-> <<>>,
                      err |-> combinedOutputErr(run.err, run.out)]
        ELSE base @@ [outcome |-> parsed.outcome, tags |-> parsed.tags, err |-> parsed.err]

\* mutant of IsDetachedCall: every failure counts as detached
IsDetachedCallAnyFailure(run) ==
    LET cmd == <<<<"s", "y", "m", "b", "o", "l", "i", "c", "-", "r", "e", "f">>, <<"-", "q">>, <<"H", "E", "A", "D">>>>
        base == [op |-> "IsDetached", execs |-> <<Exec(cmd, run)>>]
    IN  IF ~run.ok
        THEN base @@ [detached |-> TRUE, err |-> NoError]
        ELSE base @@ [detached |-> FALSE, err |-> NoError]

IsDetachedCall(run) ==
    LET cmd == <<<<"s", "y", "m", "b", "o", "l", "i", "c", "-", "r", "e", "f">>, <<"-", "q">>, <<"H", "E", "A", "D">>>>
        output == run.out
        base == [op |-> "IsDetached", execs |-> <<Exec(cmd, run)>>]
    IN  IF ~run.ok
        THEN IF output = <<>>
             THEN base @@ [detached |-> TRUE, err |-> NoError]
             ELSE base @@ [detached |-> FALSE,
                           err |-> [kind |-> "errors.New", cause |-> "", msg |-> output]]
        ELSE base @@ [detached |-> FALSE, err |-> NoError]

LastTagCall(cfg, run) ==
    LET cmd == <<<<"f", "o", "r", "-", "e", "a", "c", "h", "-", "r", "e", "f">>, <<"r", "e", "f", "s", "/", "t", "a", "g", "s", "/">> \o cfg.Filter, <<"-", "-", "s", "o", "r", "t">>, <<"-", "v", "e", "r", "s", "i", "o", "n", ":", "r", "e", "f", "n", "a", "m", "e">>,
                 <<"-", "-", "s", "o", "r", "t">>, <<"-", "c", "r", "e", "a", "t", "o", "r", "d", "a", "t", "e">>, <<"-", "-", "f", "o", "r", "m", "a", "t">>, <<"%", "(", "r", "e", "f", "n", "a", "m", "e", ":", "s", "h", "o", "r", "t", ")">>, <<"-", "-", "c", "o", "u", "n", "t">>, <<"1">>>>
    IN  [op |-> "LastTag", execs |-> <<Exec(cmd, run)>>,
         result |-> IF ~run.ok THEN <<>> ELSE TrimSpace(Trim(run.out, {NL}))]

BranchCall(run) ==
    LET cmd == <<<<"s", "y", "m", "b", "o", "l", "i", "c", "-", "r", "e", "f">>, <<"-", "-", "s", "h", "o", "r", "t">>, <<"H", "E", "A", "D">>>>
    IN  [op |-> "Branch", execs |-> <<Exec(cmd, run)>>,
         result |-> IF ~run.ok THEN <<>> ELSE TrimSpace(Trim(run.out, {NL}))]

CommitCall(header, body, footer, run) ==
    LET cmd == <<<<"c", "o", "m", "m", "i", "t">>, <<"-", "m">>, header, <<"-", "m">>, <<>>, <<"-", "m">>, body, <<"-", "m">>, <<>>, <<"-", "m">>, footer>>
    IN  [op |-> "Commit", execs |-> <<Exec(cmd, [run EXCEPT !.out = <<>>])>>,
         err |-> IF run.ok THEN NoError
                 ELSE [kind |-> "ExitError", cause |-> run.err, msg |-> <<>>]]

----------------------------------------------------------------------------
(* Inputs: the configurations, arguments and process results the calls are *)
(* made with                                                               *)

\* TagConfig values: Pattern has three %d slots, Filter is a ref glob
TagConfigs ==
    { [Pattern |-> <<"%", "d", ".", "%", "d", ".", "%", "d">>, Filter |-> <<"*">>],
      [Pattern |-> <<"v", "%", "d", ".", "%", "d", ".", "%", "d">>, Filter |-> <<"v", "*">>] }

\* message processors: one accepts every subject, one rejects the subject "bad"
MessageProcessors == { {}, {<<"b", "a", "d">>} }

RECURSIVE SeqsUpTo(_, _)
\* the sequences of at most n elements of S
SeqsUpTo(S, n) ==
    IF n = 0 THEN {<<>>}
    ELSE SeqsUpTo(S, n - 1) \cup {Append(q, x) : q \in {r \in SeqsUpTo(S, n - 1) : Len(r) = n - 1}, x \in S}

\* commits of a repository, as the fields git prints for them
Commit(ad, at, cN, h, s, b) == [ad |-> ad, at |-> at, cN |-> cN, h |-> h, s |-> s, b |-> b]

Commits ==
    { Commit(<<"2", "0", "2", "4", "-", "0", "1", "-", "0", "2">>, <<"1", "7", "0", "4", "1", "5", "3", "6", "0", "0">>, <<"J", "o", " ", "D">>, <<"a", "1">>, <<"f", "i", "x", ":", " ", "x">>, <<"b">>),
      Commit(<<"2", "0", "2", "4", "-", "0", "1", "-", "0", "3">>, <<"1", "7">>, <<"A", "l">>, <<"b", "2">>, <<"f", "e", "a", "t", ":", " ", "y">>, <<"l", "1", NL, NL, Quote, "l", "2", Quote, NL>>),
      Commit(<<"2", "0", "2", "4", "-", "0", "1", "-", "0", "4">>, <<"1", "8">>, <<"A", "l">>, <<"c", "3">>, <<"d", "o", "c">>, <<"p", "#", "#", "#", "q">>),
      Commit(<<"2", "0", "2", "4", "-", "0", "1", "-", "0", "5">>, <<"1", "9">>, <<"A", "l">>, <<"d", "4">>, <<"d", "o", "c">>, <<"x", "~", "~", "~", "y">>),
      Commit(<<"2", "0", "2", "4", "-", "0", "1", "-", "0", "6">>, <<"2", "0">>, <<"A", "l">>, <<"e", "5">>, <<"b", "a", "d">>, <<"b">>),
      Commit(<<"2", "0", "2", "4", "-", "0", "1", "-", "0", "7">>, <<"2", "1">>, <<"A", "l">>, <<"f", "6">>, <<"d", "o", "c">>, <<"~", "~", "~">>) }

\* results of the `git log` invocation
LogRuns == FailedRuns \cup {Run(TRUE, "", GitLogOutput(cs)) : cs \in SeqsUpTo(Commits, MaxCommits)}

\* LogRange values: date ranges over valid, invalid and non-date ends, and
\* ranges of every other kind, the undeclared kind "" among them
LogRanges ==
    [rangeType : {DateRange},
     start : {<<>>, <<"2", "0", "2", "4", "-", "0", "1", "-", "0", "1">>},
     end : {<<>>, <<"2", "0", "2", "4", "-", "0", "5", "-", "0", "1">>, <<"2", "0", "2", "4", "-", "0", "2", "-", "2", "8">>, <<"2", "0", "2", "4", "-", "0", "2", "-", "2", "9">>, <<"2", "0", "2", "3", "-", "0", "2", "-", "2", "8">>, <<"2", "0", "2", "3", "-", "1", "2", "-", "3", "1">>,
            <<"2", "0", "2", "4", "-", "0", "4", "-", "3", "0">>, <<"1", "9", "0", "0", "-", "0", "2", "-", "2", "8">>, <<"2", "0", "0", "0", "-", "0", "2", "-", "2", "8">>, <<"2", "0", "2", "3", "-", "0", "2", "-", "2", "9">>, <<"2", "0", "2", "4", "-", "1", "3", "-", "0", "1">>,
            <<"2", "0", "2", "4", "-", "5", "-", "1">>, <<"H", "E", "A", "D">>}]
    \cup
    [rangeType : {TagRange, HashRange, <<>>},
     start : {<<>>, <<"v", "1", ".", "0", ".", "0">>},
     end : {<<>>, <<"v", "2", ".", "0", ".", "0">>, <<"2", "0", "2", "4", "-", "0", "5", "-", "0", "1">>}]

\* semantic versions, with a number of more than one digit
Versions == [Major : {0, 1, 12}, Minor : {0, 2}, Patch : {0, 3}]

\* results of the invocations of Tag, Tags, LastTag, Branch, Commit
OkRuns == { Run(TRUE, "", <<>>), Run(TRUE, "", <<" ", "v", "1", ".", "2", ".", "3", NL>>) }

\* results of `git symbolic-ref -q HEAD`
SymbolicRefRuns ==
    FailedRuns \cup { Run(TRUE, "", <<"r", "e", "f", "s", "/", "h", "e", "a", "d", "s", "/", "m", "a", "i", "n", NL>>), Run(TRUE, "", <<>>) }

\* lines of a tag listing: well formed, with a date that does not parse,
\* without a date, blank, with a "#" in the tag name, and without any "#"
TagLines ==
    { <<"2", "0", "2", "4", "-", "0", "1", "-", "0", "2", " ", "1", "0", ":", "0", "0", ":", "0", "0", " ", "+", "0", "0", "0", "0", "#", "v", "1">>,
      <<"2", "0", "2", "4", "-", "0", "2", "-", "3", "0", " ", "9", ":", "0", "0", ":", "0", "0", " ", "-", "0", "3", "0", "0", "#", "v", "2">>,
      <<"#", "v", "3">>,
      <<" ", " ">>,
      <<"2", "0", "2", "4", "-", "0", "1", "-", "0", "2", " ", "1", "0", ":", "0", "0", ":", "0", "0", " ", "+", "0", "0", "0", "0", "#", "v", "4", "#", "r", "c">>,
      <<"w", "a", "r", "n", "i", "n", "g">> }

RECURSIVE Lines(_)
Lines(ls) == IF ls = <<>> THEN <<>> ELSE Head(ls) \o <<NL>> \o Lines(Tail(ls))

\* texts given to parseTagsOutput
TagOutputs == {Lines(ls) : ls \in SeqsUpTo(TagLines, MaxLines)}

\* results of the `git for-each-ref` invocation of Tags
TagsRuns == FailedRuns \cup {Run(TRUE, "", out) : out \in TagOutputs}

\* records given to parseCommitLog
CommitRecords ==
    { <<"2", "0", "2", "4", "-", "0", "1", "-", "0", "2", "#", "#", "#", "1", "7", "0", "4", "1", "5", "3", "6", "0", "0", "#", "#", "#", "J", "a", "n", "e", " ", "D", "o", "e", "#", "#", "#", "a", "b", "c", "1", "2", "3", "4", "#", "#", "#", "f", "i", "x", ":", " ", "b", "u", "g", "#", "#", "#", "b", "o", "d", "y", " ", "t", "e", "x", "t">>,
      <<"2", "0", "2", "4", "-", "0", "1", "-", "0", "2", "#", "#", "#", "a", "b", "c", "#", "#", "#", "J", "o", "#", "#", "#", "a", "1", "#", "#", "#", "f", "i", "x", "#", "#", "#", "b">>,
      <<"2", "0", "2", "4", "-", "0", "1", "-", "0", "2", "#", "#", "#", "#", "#", "#", "J", "o", "#", "#", "#", "a", "1", "#", "#", "#", "f", "i", "x", "#", "#", "#", "b">>,
      <<"2", "0", "2", "4", "-", "0", "1", "-", "0", "2", "#", "#", "#", "-", "3", "#", "#", "#", "J", "o", "#", "#", "#", "a", "1", "#", "#", "#", "f", "i", "x", "#", "#", "#", "b">>,
      <<"2", "0", "2", "4", "-", "0", "1", "-", "0", "2", "#", "#", "#", "1", "x", "#", "#", "#", "J", "o", "#", "#", "#", "a", "1", "#", "#", "#", "f", "i", "x", "#", "#", "#", "b">>,
      <<"2", "0", "2", "4", "-", "0", "1", "-", "0", "2", "#", "#", "#", "7", "#", "#", "#", "J", "o", "#", "#", "#", "a", "1", "#", "#", "#", "f", "i", "x", "#", "#", "#", "p", "#", "#", "#", "q">>,
      <<"2", "0", "2", "4", "-", "0", "1", "-", "0", "2", "#", "#", "#", "8", "#", "#", "#", "J", "o", "#", "#", "#", "a", "1", "#", "#", "#", "f", "i", "x", "#", "#", "#", "s", "a", "y", " ", Quote, "h", "i", Quote>>,
      <<"2", "0", "2", "4", "-", "0", "1", "-", "0", "2", "#", "#", "#", "x", "7", "#", "#", "#", "J", "o", "#", "#", "#", "a", "1", "#", "#", "#", "b", "a", "d", "#", "#", "#", "b">>,
      <<"2", "0", "2", "4", "-", "0", "1", "-", "0", "2", "#", "#", "#", "7", "#", "#", "#", "J", "o", "#", "#", "#", "a", "1", "#", "#", "#", "b", "a", "d", "#", "#", "#", "b">>,
      <<"2", "0", "2", "4", "-", "0", "1", "-", "0", "2", "#", "#", "#", "7", "#", "#", "#", "J", "o", "#", "#", "#", "a", "1", "#", "#", "#", "f", "i", "x">>,
      <<Quote, "2", "0", "2", "4", "-", "0", "1", "-", "0", "2", "#", "#", "#", "a", "b", "c", "#", "#", "#", "J", "o", "#", "#", "#", "a", "1", "#", "#", "#", "f", "i", "x", "#", "#", "#", "b">> }

\* the pieces a raw log text is made of: chunks that end with the marker,
\* then a tail that does not
RawChunks == { <<>>, <<Quote, "d", "#", "#", "#", "1", "#", "#", "#", "a", "#", "#", "#", "h", "#", "#", "#", "s", "#", "#", "#", "b">>, <<Quote, NL, Quote>>, <<"x">> }

RawTails == { <<>>, <<Quote>>, <<NL>>, <<"x">>, <<"d", "#", "#", "#", "2", "#", "#", "#", "a", "#", "#", "#", "h", "#", "#", "#", "s", "#", "#", "#", "t">>, <<"~", "~">> }

RECURSIVE Chunks(_)
Chunks(cs) == IF cs = <<>> THEN <<>> ELSE Head(cs) \o endLine \o Chunks(Tail(cs))

\* texts given to parseLogOutput
RawLogs == {Chunks(cs) \o t : cs \in SeqsUpTo(RawChunks, MaxChunks), t \in RawTails}

----------------------------------------------------------------------------
(* The state machine: NewGit, then one call after the other. GitImpl is     *)
(* synchronous: a call runs to its end, its result is held in call until   *)
(* the caller has taken it, and only then the next call starts             *)

NoCall == [op |-> "none"]

\* NewGit(messageProcessor, cfg) (git.go:77-82)
Init ==
    /\ tagCfg \in TagConfigs
    /\ messageProcessor \in MessageProcessors
    /\ call = NoCall

Log ==
    /\ call = NoCall
    /\ \E lr \in LogRanges, run \in LogRuns : call' = LogCall(messageProcessor, lr, run)
    /\ UNCHANGED <<tagCfg, messageProcessor>>

Tag ==
    /\ call = NoCall
    /\ \E version \in Versions, tagRun \in FailedRuns \cup OkRuns, pushRun \in FailedRuns \cup OkRuns :
           call' = TagCall(tagCfg, version, tagRun, pushRun)
    /\ UNCHANGED <<tagCfg, messageProcessor>>

Tags ==
    /\ call = NoCall
    /\ \E run \in TagsRuns : call' = TagsCall(tagCfg, run)
    /\ UNCHANGED <<tagCfg, messageProcessor>>

IsDetached ==
    /\ call = NoCall
    /\ \E run \in SymbolicRefRuns : call' = IsDetachedCall(run)
    /\ UNCHANGED <<tagCfg, messageProcessor>>

LastTag ==
    /\ call = NoCall
    /\ \E run \in FailedRuns \cup OkRuns : call' = LastTagCall(tagCfg, run)
    /\ UNCHANGED <<tagCfg, messageProcessor>>

Branch ==
    /\ call = NoCall
    /\ \E run \in SymbolicRefRuns : call' = BranchCall(run)
    /\ UNCHANGED <<tagCfg, messageProcessor>>

CommitOp ==
    /\ call = NoCall
    /\ \E header \in {<<"f", "i", "x", ":", " ", "x">>}, body \in {<<>>, <<"b">>}, footer \in {<<>>, <<"f">>},
          run \in {Run(TRUE, "", <<>>), Run(FALSE, "exit status 1", <<>>)} :
           call' = CommitCall(header, body, footer, run)
    /\ UNCHANGED <<tagCfg, messageProcessor>>

\* the parsers applied on their own to a text
ParseLogOutput ==
    /\ call = NoCall
    /\ \E log \in RawLogs :
           call' = [op |-> "parseLogOutput", log |-> log,
                    tokens |-> Scanner("endLine", log, FALSE)]
                   @@ parseLogOutput(messageProcessor, log)
    /\ UNCHANGED <<tagCfg, messageProcessor>>

ParseCommitLog ==
    /\ call = NoCall
    /\ \E commit \in CommitRecords :
           call' = [op |-> "parseCommitLog", commit |-> commit]
                   @@ parseCommitLog(messageProcessor, commit)
    /\ UNCHANGED <<tagCfg, messageProcessor>>

ParseTagsOutput ==
    /\ call = NoCall
    /\ \E input \in TagOutputs :
           call' = [op |-> "parseTagsOutput", input |-> input] @@ parseTagsOutput(input)
    /\ UNCHANGED <<tagCfg, messageProcessor>>

\* the caller takes the result of the call
Return ==
    /\ call # NoCall
    /\ call' = NoCall
    /\ UNCHANGED <<tagCfg, messageProcessor>>

Next ==
    \/ Log
    \/ Tag
    \/ Tags
    \/ IsDetached
    \/ LastTag
    \/ Branch
    \/ CommitOp
    \/ ParseLogOutput
    \/ ParseCommitLog
    \/ ParseTagsOutput
    \/ Return

Spec == Init /\ [][Next]_vars

----------------------------------------------------------------------------
(* Helpers of the properties: what the claims speak of, computed from the  *)
(* texts without the operators of the model above                          *)

\* the places, counted from 1, at which b occurs in s
Places(s, b) == {i \in 1..(Len(s) - Len(b) + 1) : SubSeq(s, i, i + Len(b) - 1) = b}

\* the first place at which b occurs in s, which holds one
FirstPlace(s, b) == CHOOSE i \in Places(s, b) : \A j \in Places(s, b) : i <= j

\* the text of s before the first b, all of s when it holds none
Before(s, b) == IF Places(s, b) = {} THEN s ELSE SubSeq(s, 1, FirstPlace(s, b) - 1)

\* the text of s after the first b, empty when it holds none
After(s, b) == IF Places(s, b) = {} THEN <<>> ELSE SubSeq(s, FirstPlace(s, b) + Len(b), Len(s))

\* the text before the first newline
FirstLine(s) == Before(s, <<NL>>)

\* the days from 0000-03-01 to y-m-d, by the civil calendar formula
DayNumber(y, m, d) ==
    LET yy == IF m <= 2 THEN y - 1 ELSE y
        mm == IF m <= 2 THEN m + 9 ELSE m - 3
    IN  365 * yy + (yy \div 4) - (yy \div 100) + (yy \div 400) + ((153 * mm + 2) \div 5) + d

\* the value of a decimal digit
DigitValue ==
    ("0" :> 0) @@ ("1" :> 1) @@ ("2" :> 2) @@ ("3" :> 3) @@ ("4" :> 4)
    @@ ("5" :> 5) @@ ("6" :> 6) @@ ("7" :> 7) @@ ("8" :> 8) @@ ("9" :> 9)

RECURSIVE Number(_)
\* the number a string of decimal digits denotes
Number(s) == IF s = <<>> THEN 0 ELSE 10 * Number(SubSeq(s, 1, Len(s) - 1)) + DigitValue[s[Len(s)]]

\* s is YYYY-MM-DD and names a day of the calendar
IsCalendarDate(s) ==
    /\ Len(s) = 10
    /\ s[5] = "-" /\ s[8] = "-"
    /\ \A i \in {1, 2, 3, 4, 6, 7, 9, 10} : s[i] \in DOMAIN DigitValue
    /\ LET y == Number(SubSeq(s, 1, 4))
           m == Number(SubSeq(s, 6, 7))
           d == Number(SubSeq(s, 9, 10))
       IN  /\ m \in 1..12
           /\ d >= 1
           /\ DayNumber(y, m, d) < (IF m = 12 THEN DayNumber(y + 1, 1, 1) ELSE DayNumber(y, m + 1, 1))

DayOf(s) == DayNumber(Number(SubSeq(s, 1, 4)), Number(SubSeq(s, 6, 7)), Number(SubSeq(s, 9, 10)))

\* the decimal numerals of the version numbers in use
Decimal ==
    (0 :> <<"0">>) @@ (1 :> <<"1">>) @@ (2 :> <<"2">>) @@ (3 :> <<"3">>) @@ (12 :> <<"1", "2">>)

\* the arguments Log added after "log", "--date=short" and the format
RangeArgs == SubSeq(call.execs[1].cmd, 4, Len(call.execs[1].cmd))

\* a CommandError: the exit error of the run and the first line of its output
IsCommandError(err, exec) ==
    err = [kind |-> "Errorf", cause |-> exec.err, msg |-> FirstLine(exec.out)]

----------------------------------------------------------------------------
(* Properties *)

\* C1: when the git invocation of Log succeeded and the message processor
\* rejects a record, Log returns no entries and exactly the error the
\* processor returned, and the rejected record is the last one handed to
\* the processor: no record after it is parsed.
C1_ParseFailureAbortsLog ==
    (/\ call.op = "Log"
     /\ call.execs[1].ok
     /\ \E i \in 1..Len(call.calls) : call.calls[i][1] \in messageProcessor)
    => LET n == Len(call.calls)
       IN  /\ call.outcome = "return"
           /\ call.logs = <<>>
           /\ call.calls[n][1] \in messageProcessor
           /\ \A i \in 1..(n - 1) : call.calls[i][1] \notin messageProcessor
           /\ call.err = [kind |-> "MessageProcessor", cause |-> "", msg |-> call.calls[n][1]]

\* C1 witness: Log over an output whose first record is rejected and whose
\* second record is well formed has returned after one call to the processor.
C1_Witness ==
    /\ call.op = "Log"
    /\ call.execs[1].ok
    /\ call.execs[1].out =
           GitLogOutput(<<Commit(<<"2", "0", "2", "4", "-", "0", "1", "-", "0", "6">>, <<"2", "0">>, <<"A", "l">>, <<"e", "5">>, <<"b", "a", "d">>, <<"b">>),
                          Commit(<<"2", "0", "2", "4", "-", "0", "1", "-", "0", "2">>, <<"1", "7", "0", "4", "1", "5", "3", "6", "0", "0">>, <<"J", "o", " ", "D">>, <<"a", "1">>, <<"f", "i", "x", ":", " ", "x">>, <<"b">>)>>)
    /\ messageProcessor = {<<"b", "a", "d">>}
    /\ Len(call.calls) = 1
    /\ call.err.kind = "MessageProcessor"

\* C2: for a date range with a non-empty start or end, Log adds exactly
\* --since start --until U, where U is the day after end when end is a
\* calendar date YYYY-MM-DD and end itself otherwise; start is unchanged.
C2_DateRangeArgs ==
    (/\ call.op = "Log"
     /\ call.lr.rangeType = DateRange
     /\ (call.lr.start # <<>> \/ call.lr.end # <<>>))
    => /\ Len(RangeArgs) = 4
       /\ RangeArgs[1] = <<"-", "-", "s", "i", "n", "c", "e">>
       /\ RangeArgs[2] = call.lr.start
       /\ RangeArgs[3] = <<"-", "-", "u", "n", "t", "i", "l">>
       /\ IF IsCalendarDate(call.lr.end)
          THEN /\ IsCalendarDate(RangeArgs[4])
               /\ DayOf(RangeArgs[4]) = DayOf(call.lr.end) + 1
          ELSE RangeArgs[4] = call.lr.end

\* C2 witness: a date range ending on the last day of a year was resolved
\* to the first day of the next year, with an empty start passed through.
C2_Witness ==
    /\ call.op = "Log"
    /\ call.lr = [rangeType |-> DateRange, start |-> <<>>, end |-> <<"2", "0", "2", "3", "-", "1", "2", "-", "3", "1">>]
    /\ RangeArgs = <<<<"-", "-", "s", "i", "n", "c", "e">>, <<>>, <<"-", "-", "u", "n", "t", "i", "l">>, <<"2", "0", "2", "4", "-", "0", "1", "-", "0", "1">>>>

\* C3: for every kind but the date kind, Log adds nothing when start and
\* end are empty, end alone when only start is empty, and start..end
\* otherwise with HEAD in place of an empty end; for every kind, the date
\* kind too, both boundaries empty adds nothing.
C3_RefRangeArgs ==
    (call.op = "Log")
    => /\ (call.lr.start = <<>> /\ call.lr.end = <<>>) => RangeArgs = <<>>
       /\ (call.lr.rangeType # DateRange /\ call.lr.start = <<>> /\ call.lr.end # <<>>)
              => RangeArgs = <<call.lr.end>>
       /\ (call.lr.rangeType # DateRange /\ call.lr.start # <<>> /\ call.lr.end # <<>>)
              => RangeArgs = <<call.lr.start \o <<".", ".">> \o call.lr.end>>
       /\ (call.lr.rangeType # DateRange /\ call.lr.start # <<>> /\ call.lr.end = <<>>)
              => RangeArgs = <<call.lr.start \o <<".", ".", "H", "E", "A", "D">>>>

\* C3 witness: a tag range with a start and no end was resolved to start..HEAD.
C3_Witness ==
    /\ call.op = "Log"
    /\ call.lr = [rangeType |-> TagRange, start |-> <<"v", "1", ".", "0", ".", "0">>, end |-> <<>>]
    /\ RangeArgs = <<<<"v", "1", ".", "0", ".", "0", ".", ".", "H", "E", "A", "D">>>>

\* C4: Tag runs the tag creation first and the push only after the tag
\* creation succeeded; a failed creation returns a CommandError without a
\* push, a failed push returns a CommandError, the error is nil only when
\* both succeeded, and the name returned is always the pattern filled with
\* major, minor and patch.
C4_TagThenPush ==
    (call.op = "Tag")
    => LET e == call.execs
           v == call.version
           name == (IF tagCfg.Pattern[1] = "v" THEN <<"v">> ELSE <<>>)
                   \o Decimal[v.Major] \o <<".">> \o Decimal[v.Minor] \o <<".">> \o Decimal[v.Patch]
       IN  /\ call.tag = name
           /\ Len(e) \in {1, 2}
           /\ e[1].cmd[1] = <<"t", "a", "g">> /\ e[1].cmd[3] = name
           /\ ~e[1].ok => (Len(e) = 1 /\ IsCommandError(call.err, e[1]))
           /\ e[1].ok => (Len(e) = 2 /\ e[2].cmd = <<<<"p", "u", "s", "h">>, <<"o", "r", "i", "g", "i", "n">>, name>>)
           /\ (e[1].ok /\ ~e[2].ok) => IsCommandError(call.err, e[2])
           /\ (call.err = NoError) <=> (\A i \in 1..Len(e) : e[i].ok) /\ Len(e) = 2

\* C4 witness: Tag created the tag, failed to push it and returned the
\* name with the error of the push.
C4_Witness ==
    /\ call.op = "Tag"
    /\ Len(call.execs) = 2
    /\ call.execs[1].ok
    /\ ~call.execs[2].ok
    /\ call.tag = <<"v", "1", "2", ".", "2", ".", "3">>
    /\ call.err.msg = <<"f", "a", "t", "a", "l", ":", " ", "b", "a", "d">>

\* C5: IsDetached returns (false, nil) when the invocation succeeds,
\* (true, nil) when it fails without output and (false, error with the
\* output as message) when it fails with output; never true with an error.
C5_IsDetachedOutcomes ==
    (call.op = "IsDetached")
    => LET e == call.execs[1]
       IN  /\ e.ok => (call.detached = FALSE /\ call.err = NoError)
           /\ (~e.ok /\ e.out = <<>>) => (call.detached = TRUE /\ call.err = NoError)
           /\ (~e.ok /\ e.out # <<>>)
                  => (/\ call.detached = FALSE
                      /\ call.err = [kind |-> "errors.New", cause |-> "", msg |-> e.out])
           /\ ~(call.detached /\ call.err # NoError)

\* C5 witness: the invocation failed with output and IsDetached returned
\* false with that output as the error.
C5_Witness ==
    /\ call.op = "IsDetached"
    /\ ~call.execs[1].ok
    /\ call.execs[1].out = <<"f", "a", "t", "a", "l", ":", " ", "b", "a", "d", NL, "h", "i", "n", "t">>
    /\ call.detached = FALSE
    /\ call.err.msg = <<"f", "a", "t", "a", "l", ":", " ", "b", "a", "d", NL, "h", "i", "n", "t">>

----------------------------------------------------------------------------
(* Helpers of the properties on records, fields and lines *)

RECURSIVE Cut(_, _)
\* a text cut at its end-of-record markers, from the left: the chunks that
\* a marker ends, in order, and the tail that no marker ends
Cut(s, acc) ==
    IF Places(s, endLine) = {} THEN [chunks |-> acc, tail |-> s]
    ELSE Cut(After(s, endLine), Append(acc, Before(s, endLine)))

MarkerChunks(s) == Cut(s, <<>>).chunks

TailAfterMarkers(s) == Cut(s, <<>>).tail

NoMarker(s) == Places(s, endLine) = {}

\* a token without its quotes and white space
Strip(s) == TrimSpace(Trim(s, {Quote}))

\* the stripped texts of ss that are not empty
NonBlank(ss) == SelectSeq([i \in 1..Len(ss) |-> Strip(ss[i])], LAMBDA x : x # <<>>)

IsPrefix(p, s) == Len(p) <= Len(s) /\ SubSeq(s, 1, Len(p)) = p

RECURSIVE AfterSeparators(_, _)
\* the text after the n-th field separator of s (empty when there is none)
AfterSeparators(s, n) == IF n = 0 THEN s ELSE AfterSeparators(After(s, logSeparator), n - 1)

RECURSIVE CountSeparators(_)
CountSeparators(s) ==
    IF Places(s, logSeparator) = {} THEN 0 ELSE 1 + CountSeparators(After(s, logSeparator))

UpToSeparator(s) == Before(s, logSeparator)

\* the k-th field of a record, counted from 1, once its outer quotes are away
FieldAt(record, k) == UpToSeparator(AfterSeparators(Trim(record, {Quote}), k - 1))

\* an optional sign and then decimal digits, at least one
IsIntegerLiteral(s) ==
    LET digits == IF s # <<>> /\ s[1] \in {"+", "-"} THEN Tail(s) ELSE s
    IN  digits # <<>> /\ \A i \in 1..Len(digits) : digits[i] \in DOMAIN DigitValue

RECURSIVE CutLines(_, _)
\* the lines of a text, the last one with or without its newline
CutLines(s, acc) ==
    IF s = <<>> THEN acc
    ELSE IF Places(s, <<NL>>) = {} THEN Append(acc, s)
    ELSE CutLines(After(s, <<NL>>), Append(acc, Before(s, <<NL>>)))

\* the lines of a text that are not blank, without the white space around them
NonBlankLines(s) ==
    LET lines == CutLines(s, <<>>)
    IN  SelectSeq([i \in 1..Len(lines) |-> TrimSpace(lines[i])], LAMBDA x : x # <<>>)

\* the text after the first "#" of a line (empty when there is none)
AfterFirstHash(s) == After(s, <<"#">>)

BeforeFirstHash(s) == Before(s, <<"#">>)

----------------------------------------------------------------------------
(* Properties of the parsers *)

C7_BodyIsAllRemainingText ==
    (/\ call.op = "parseCommitLog"
     /\ CountSeparators(call.commit) >= 5)
    => /\ call.outcome = "return"
       /\ Len(call.calls) = 1
       /\ call.calls[1][1] = FieldAt(call.commit, 5)
       /\ call.calls[1][2] = AfterSeparators(call.commit, 5)

\* C8 as stated, for the texts whose non-blank lines all hold a "#": the
\* tag parser returns one entry for each non-blank line, in order, and no
\* error; the name of an entry is all of the line after its first "#", and
\* the date is the zero time when the part before the "#" does not parse.
C8_OneTagPerLine ==
    (/\ call.op = "parseTagsOutput"
     /\ \A i \in 1..Len(NonBlankLines(call.input)) :
            Places(NonBlankLines(call.input)[i], <<"#">>) # {})
    => LET lines == NonBlankLines(call.input)
       IN  /\ call.outcome = "return"
           /\ call.err = NoError
           /\ Len(call.tags) = Len(lines)
           /\ \A i \in 1..Len(lines) :
                  /\ call.tags[i].Name = AfterFirstHash(lines[i])
                  /\ ~ParseTagDate(BeforeFirstHash(lines[i])).ok => call.tags[i].Date = ZeroTime

\* C9: a record of six fields whose timestamp field is not an integer
\* literal parses all the same: parseCommitLog returns, an error only when
\* the message processor rejected the subject, and otherwise the entry with
\* timestamp 0 and its date, author name, hash and message from the record.
C9_BadTimestampIsZero ==
    (/\ call.op = "parseCommitLog"
     /\ CountSeparators(call.commit) >= 5
     /\ ~IsIntegerLiteral(FieldAt(call.commit, 2)))
    => /\ call.outcome = "return"
       /\ call.err # NoError => FieldAt(call.commit, 5) \in messageProcessor
       /\ FieldAt(call.commit, 5) \notin messageProcessor
              => /\ call.err = NoError
                 /\ call.log.Timestamp = 0
                 /\ call.log.Date = FieldAt(call.commit, 1)
                 /\ call.log.AuthorName = FieldAt(call.commit, 3)
                 /\ call.log.Hash = FieldAt(call.commit, 4)
                 /\ call.log.Message.subject = FieldAt(call.commit, 5)
                 /\ call.log.Message.body = FieldAt(call.commit, 6)

\* C9 witness: a record with the timestamp "abc" was parsed without an
\* error into an entry with timestamp 0 and the hash of the record.
C9_Witness ==
    /\ call.op = "parseCommitLog"
    /\ call.commit = <<"2", "0", "2", "4", "-", "0", "1", "-", "0", "2", "#", "#", "#", "a", "b", "c", "#", "#", "#", "J", "o", "#", "#", "#", "a", "1", "#", "#", "#", "f", "i", "x", "#", "#", "#", "b">>
    /\ call.outcome = "return"
    /\ call.err = NoError
    /\ call.log.Timestamp = 0
    /\ call.log.Hash = <<"a", "1">>

====
